---- MODULE Spec2Model ----
(***************************************************************************)
(* A model of the signature store, the fuzzy type index snapshot and the   *)
(* query engine of src/src/lib.rs.                                         *)
(*                                                                         *)
(* The sled database is modelled by its four trees (param, ret, fn, crate) *)
(* and the persisted counter next_fn_id; a tree is a function from the     *)
(* keys it holds to their values.  The meilisearch service is modelled by  *)
(* the snapshot of type strings it was last loaded with; its ranking is    *)
(* opaque, so a search of it may return any sequence of distinct strings   *)
(* of the snapshot, up to the limit.                                       *)
(***************************************************************************)
EXTENDS Naturals, Sequences, FiniteSets, TLC

VARIABLES
    next_fn_id,   \* the value stored under FN_ID_COUNTER: <<n>>, or <<>> when unset
    param_tree,   \* PARAM_TREE: type string -> set of fn ids
    ret_tree,     \* RET_TREE:   type string -> set of fn ids
    fn_tree,      \* FN_TREE:    fn id -> FnDetail
    crate_tree,   \* "crate":    crate name -> sequence of fn ids
    fuzzy,        \* the meilisearch indexes: what load_text_search last loaded
    aborted,      \* the assertion or unwrap a transaction died on, if any did
    query,        \* history: the last search's request and candidate columns
    result,       \* the value (or panic) of the last search
    record_undo,  \* whether the undo and last histories are kept in this behaviour
    undo,         \* history: the trees as they were before the last add_crate
    last,         \* history: the last transaction and the state it found
    issued,       \* history: every fn id add_crate assigned, in order
    pc,           \* position of the search running beside the writers
    srch          \* locals of that search

vars == <<next_fn_id, param_tree, ret_tree, fn_tree, crate_tree, fuzzy,
          aborted, query, result, record_undo, undo, last, issued, pc, srch>>

store == <<next_fn_id, param_tree, ret_tree, fn_tree, crate_tree>>

-----------------------------------------------------------------------------
(* Bounds of the model *)

\* the counter is not advanced past this many ids
MaxId == 4
\* a search request carries at most this many parameter terms
MaxQueryParams == 1
\* FUZZY_SEARCH_LIMIT (100 at src/src/lib.rs:25), scaled down
FUZZY_SEARCH_LIMIT == 3
\* MAX_RESULTS (500 at src/src/lib.rs:26), scaled down so that the cap is hit
MAX_RESULTS == 2
\* the batch of load_text_search (500 at src/src/lib.rs:292 and 305), scaled
\* down so that a load sends a full batch and a rest
LOAD_BATCH == 2

-----------------------------------------------------------------------------
(* Data *)

NOARGS == "<NOARGS>"
NoCounter == <<>>
None == "none"

EmptyTree == [k \in {} |-> {}]

FnDetail(krate, params, ret, s) ==
    [krate |-> krate, params |-> params, ret |-> ret, s |-> s]

F1 == FnDetail("demo", <<"u8">>, "bool", "fn demo::f1(u8) -> bool")
F2 == FnDetail("demo", <<>>, "bool", "fn demo::f2() -> bool")
F3 == FnDetail("demo", <<"u8", "u16">>, "String", "fn demo::f3(u8, u16) -> String")
G1 == FnDetail("other", <<"u16", "u16">>, "bool", "fn other::g1(u16, u16) -> bool")

Crates == {"demo", "other"}

\* what analyze may hand to add_crate for a crate
Batches(name) ==
    IF name = "demo" THEN {<<F1, F2, F3>>, <<F2>>}
    ELSE {<<G1>>, <<>>}

\* String::cmp on the strings of the model: their place in byte order
StrOrder ==
    <<"demo", "fn demo::f1(u8) -> bool", "fn demo::f2() -> bool",
      "fn demo::f3(u8, u16) -> String", "fn other::g1(u16, u16) -> bool",
      "other">>

StrRank(str) == CHOOSE i \in 1..Len(StrOrder) : StrOrder[i] = str

Range(seq) == {seq[i] : i \in 1..Len(seq)}

-----------------------------------------------------------------------------
(* sled trees *)

TreeInsert(tree, k, v) ==
    [x \in DOMAIN tree \cup {k} |-> IF x = k THEN v ELSE tree[x]]

\* a remove that leaves the key in the tree
TreeRemove_Keep(tree, k) == tree

TreeRemove(tree, k) == [x \in DOMAIN tree \ {k} |-> tree[x]]

\* tree.get(k) ... .unwrap_or_else(HashSet::new)
GetSet(tree, k) == IF k \in DOMAIN tree THEN tree[k] ELSE {}

\* a parameterless function left out of the param tree
ParamsOrNil_Omit(params) == params

\* if params.is_empty() { params = ["<NOARGS>"] }
ParamsOrNil(params) == IF params = <<>> THEN <<NOARGS>> ELSE params

-----------------------------------------------------------------------------
(* add_crate *)

\* the database as a transaction finds it
Db == [next |-> next_fn_id, param |-> param_tree, ret |-> ret_tree,
       fn |-> fn_tree, crate |-> crate_tree]

\* the loop over params: insert fn_id into each param's set and write it back
RECURSIVE AddParams(_, _, _)
AddParams(tree, params, fn_id) ==
    IF params = <<>> THEN tree
    ELSE AddParams(TreeInsert(tree, Head(params),
                              GetSet(tree, Head(params)) \cup {fn_id}),
                   Tail(params), fn_id)

\* a round that does not advance fn_id
AddFn_SameId(t, fndetail) ==
    LET ret_set == GetSet(t.ret, fndetail.ret)
        isnew == t.fn_id \notin ret_set
    IN  IF ~t.ok \/ ~isnew THEN [t EXCEPT !.ok = FALSE]
        ELSE [t EXCEPT
                !.param = AddParams(t.param, ParamsOrNil(fndetail.params), t.fn_id),
                !.ret = TreeInsert(t.ret, fndetail.ret, ret_set \cup {t.fn_id}),
                !.fn = TreeInsert(t.fn, t.fn_id, fndetail),
                !.fn_ids = Append(t.fn_ids, t.fn_id)]

\* one round of the loop over fndetails; t is the transaction's view, and
\* t.ok turns FALSE when assert!(isnew) fails
AddFn(t, fndetail) ==
    LET ret_set == GetSet(t.ret, fndetail.ret)
        isnew == t.fn_id \notin ret_set
    IN  IF ~t.ok \/ ~isnew THEN [t EXCEPT !.ok = FALSE]
        ELSE [t EXCEPT
                !.param = AddParams(t.param, ParamsOrNil(fndetail.params), t.fn_id),
                !.ret = TreeInsert(t.ret, fndetail.ret, ret_set \cup {t.fn_id}),
                !.fn = TreeInsert(t.fn, t.fn_id, fndetail),
                !.fn_ids = Append(t.fn_ids, t.fn_id),
                !.fn_id = t.fn_id + 1]

RECURSIVE AddFns(_, _)
AddFns(t, fndetails) ==
    IF fndetails = <<>> THEN t
    ELSE AddFns(AddFn(t, Head(fndetails)), Tail(fndetails))

\* an add_crate that writes no entry in the crate tree
AddCrateEntry_Skip(crate, name, fn_ids) == crate

\* crate_tree.insert(name, fn_ids)
AddCrateEntry(crate, name, fn_ids) == TreeInsert(crate, name, fn_ids)

\* the transaction of add_crate on db; nothing of it is committed unless .ok
AddCrateTxn(db, name, fndetails) ==
    LET t0 == [ok |-> TRUE, param |-> db.param, ret |-> db.ret, fn |-> db.fn,
               crate |-> db.crate, fn_ids |-> <<>>, fn_id |-> db.next[1]]
        t == AddFns(t0, fndetails)
    IN  [t EXCEPT !.crate = AddCrateEntry(t.crate, name, t.fn_ids)]

-----------------------------------------------------------------------------
(* purge_crate *)

\* a write-back that drops the key of a set that became empty
WriteBack_DropEmpty(tree, k, set) ==
    IF set = {} THEN TreeRemove(tree, k) ELSE TreeInsert(tree, k, set)

\* the write-back of a set an id was removed from
WriteBack(tree, k, set) == TreeInsert(tree, k, set)

\* a purge that leaves the param sets as they are
RemoveParams_Keep(tree, params, fn_id) == tree

\* the loop over params: remove fn_id from each param's set and write it back
RECURSIVE RemoveParams(_, _, _)
RemoveParams(tree, params, fn_id) ==
    IF params = <<>> THEN tree
    ELSE RemoveParams(WriteBack(tree, Head(params),
                                GetSet(tree, Head(params)) \ {fn_id}),
                      Tail(params), fn_id)

\* fn_tree.remove(id).unwrap().unwrap() for each recorded id, in order
RECURSIVE RemoveFns(_, _)
RemoveFns(t, fn_ids) ==
    IF fn_ids = <<>> THEN t
    ELSE LET fn_id == Head(fn_ids) IN
         IF ~t.ok \/ fn_id \notin DOMAIN t.fn THEN [t EXCEPT !.ok = FALSE]
         ELSE RemoveFns([t EXCEPT !.fn = TreeRemove(t.fn, fn_id),
                                  !.fndetails = Append(t.fndetails, <<fn_id, t.fn[fn_id]>>)],
                        Tail(fn_ids))

\* the number of `_didremove` of that loop that are false: removals that
\* did not find fn_id in the set
RECURSIVE ParamMisses(_, _, _)
ParamMisses(tree, params, fn_id) ==
    IF params = <<>> THEN 0
    ELSE LET param_set == GetSet(tree, Head(params))
         IN  (IF fn_id \in param_set THEN 0 ELSE 1)
             + ParamMisses(WriteBack(tree, Head(params), param_set \ {fn_id}),
                           Tail(params), fn_id)

\* a round that takes the ret key out of the tree when its set is left empty
PurgeFn_DropEmptyRet(t, fn_id, fndetail) ==
    LET ret_set == GetSet(t.ret, fndetail.ret)
        didremove == fn_id \in ret_set
    IN  IF ~t.ok \/ ~didremove THEN [t EXCEPT !.ok = FALSE]
        ELSE [t EXCEPT
                !.missed = t.missed
                           + ParamMisses(t.param, ParamsOrNil(fndetail.params), fn_id),
                !.param = RemoveParams(t.param, ParamsOrNil(fndetail.params), fn_id),
                !.ret = WriteBack_DropEmpty(t.ret, fndetail.ret, ret_set \ {fn_id})]

\* a round that does not assert didremove
PurgeFn_NoAssert(t, fn_id, fndetail) ==
    IF ~t.ok THEN t
    ELSE [t EXCEPT
            !.missed = t.missed
                       + ParamMisses(t.param, ParamsOrNil(fndetail.params), fn_id),
            !.param = RemoveParams(t.param, ParamsOrNil(fndetail.params), fn_id),
            !.ret = WriteBack(t.ret, fndetail.ret,
                              GetSet(t.ret, fndetail.ret) \ {fn_id})]

\* one round of the loop over (fn_id, fndetail); t.ok turns FALSE when
\* assert!(didremove) fails
PurgeFn(t, fn_id, fndetail) ==
    LET ret_set == GetSet(t.ret, fndetail.ret)
        didremove == fn_id \in ret_set
    IN  IF ~t.ok \/ ~didremove THEN [t EXCEPT !.ok = FALSE]
        ELSE [t EXCEPT
                !.missed = t.missed
                           + ParamMisses(t.param, ParamsOrNil(fndetail.params), fn_id),
                !.param = RemoveParams(t.param, ParamsOrNil(fndetail.params), fn_id),
                !.ret = WriteBack(t.ret, fndetail.ret, ret_set \ {fn_id})]

RECURSIVE PurgeFns(_, _)
PurgeFns(t, fndetails) ==
    IF fndetails = <<>> THEN t
    ELSE PurgeFns(PurgeFn(t, Head(fndetails)[1], Head(fndetails)[2]),
                  Tail(fndetails))

\* a purge_crate that takes a crate the crate tree does not know for an error
PurgeCrateTxn_Strict(db, name) ==
    LET t0 == [ok |-> name \in DOMAIN db.crate, param |-> db.param,
               ret |-> db.ret, fn |-> db.fn,
               crate |-> TreeRemove(db.crate, name), fndetails |-> <<>>,
               missed |-> 0]
    IN  IF name \notin DOMAIN db.crate THEN t0
        ELSE LET t1 == RemoveFns(t0, db.crate[name])
             IN  PurgeFns(t1, t1.fndetails)

\* the transaction of purge_crate on db; a crate the crate tree does not
\* know returns at once
PurgeCrateTxn(db, name) ==
    LET t0 == [ok |-> TRUE, param |-> db.param, ret |-> db.ret, fn |-> db.fn,
               crate |-> TreeRemove(db.crate, name), fndetails |-> <<>>,
               missed |-> 0]
    IN  IF name \notin DOMAIN db.crate THEN t0
        ELSE LET t1 == RemoveFns(t0, db.crate[name])
             IN  PurgeFns(t1, t1.fndetails)

-----------------------------------------------------------------------------
(* search: candidate columns *)

\* every sequence of at most n distinct elements of S: what a ranked search
\* of an index holding S may return under a limit of n
RECURSIVE Ranked(_, _)
Ranked(S, n) ==
    IF n = 0 THEN {<<>>}
    ELSE {<<>>} \cup UNION {{<<x>> \o r : r \in Ranked(S \ {x}, n - 1)} : x \in S}

\* ret_types_search.search().with_limit(FUZZY_SEARCH_LIMIT): the hits' orig_ty
RetCandidates == Ranked(fuzzy.ret, FUZZY_SEARCH_LIMIT)

\* param_types_search.search().with_limit(FUZZY_SEARCH_LIMIT): the hits' orig_ty
ParamCandidates == Ranked(fuzzy.param, FUZZY_SEARCH_LIMIT)

Column(tree, ct) == [tree |-> tree, ct |-> ct]

\* the number of parameter columns of Some(params_search) with n terms:
\* an empty list is searched as ["<NOARGS>"]
ParamTerms(n) == IF n = 0 THEN 1 ELSE n

\* every choice of n parameter columns
RECURSIVE ParamColumns(_)
ParamColumns(n) ==
    IF n = 0 THEN {<<>>}
    ELSE {Append(cs, Column("param", ct)) : cs \in ParamColumns(n - 1),
                                            ct \in ParamCandidates}

-----------------------------------------------------------------------------
(* search: the widening loop *)

Min(a, b) == IF a <= b THEN a ELSE b

Max(S) == CHOOSE x \in S : \A y \in S : y <= x

\* a depth that defaults to the fuzzy limit when there is no column
MaxCandidateDepth_Limit(cols) ==
    IF cols = <<>> THEN FUZZY_SEARCH_LIMIT ELSE Max({Len(cols[k].ct) : k \in 1..Len(cols)})

\* candidate_types.iter().map(|(_, ct)| ct.len()).max().unwrap_or(0)
MaxCandidateDepth(cols) ==
    IF cols = <<>> THEN 0 ELSE Max({Len(cols[k].ct) : k \in 1..Len(cols)})

\* a slice that is empty once i is past the column's length
Prefix_Shrink(ct, i) == IF i > Len(ct) THEN <<>> ELSE SubSeq(ct, 1, i)

\* &ct_column[..cmp::min(i, ct_column.len())]
Prefix(ct, i) == SubSeq(ct, 1, Min(i, Len(ct)))

\* tree.get(ct) finds no entry for one of the first i candidates of the column
Missing(tree, ct, i) == \E k \in 1..Len(Prefix(ct, i)) : ct[k] \notin DOMAIN tree

\* ct_column_fn_ids: the union of the sets of the first i candidates
ColumnFnIds(tree, ct, i) ==
    UNION {GetSet(tree, ct[k]) : k \in 1..Len(Prefix(ct, i))}

\* the trees a search reads, as they are when it reads them
Trees == [param |-> param_tree, ret |-> ret_tree]

\* the first column's set alone, with no intersection
IterationFnIds_First(trees, cols, i) ==
    ColumnFnIds(trees[cols[1].tree], cols[1].ct, i)

\* iteration_fn_ids: the first column's set, intersected with every other's
IterationFnIds(trees, cols, i) ==
    {id \in ColumnFnIds(trees[cols[1].tree], cols[1].ct, i) :
        \A k \in 2..Len(cols) : id \in ColumnFnIds(trees[cols[k].tree], cols[k].ct, i)}

\* every order a HashSet may be drained in
Orders(S) == {r \in Ranked(S, Cardinality(S)) : Len(r) = Cardinality(S)}

\* a.status is "scan" while the loop runs, "found" once it is left
Acc0 == [status |-> "scan", fn_ids |-> <<>>, ranges |-> <<>>]

\* the loop's "if fn_ids.len() >= MAX_RESULTS { break }"
CapReached(fn_ids) == Len(fn_ids) >= MAX_RESULTS

\* a difference that takes nothing away
NewFnIds_All(ifnids, fn_ids) == ifnids

\* ifnids.difference(&fn_ids_set)
NewFnIds(ifnids, fn_ids) == ifnids \ Range(fn_ids)

\* one round of "for i in 1..max_candidate_depth": what it may leave behind
DepthStep(trees, cols, a, i) ==
    IF \E k \in 1..Len(cols) : Missing(trees[cols[k].tree], cols[k].ct, i)
    THEN {[a EXCEPT !.status = "panic: candidate type did not already have an entry in db"]}
    ELSE IF cols = <<>>
    THEN {[a EXCEPT !.status = "panic: unexpectedly ran out of fn ids"]}
    ELSE LET ifnids == IterationFnIds(trees, cols, i)
             new == NewFnIds(ifnids, a.fn_ids)
         IN  {[status |-> IF CapReached(a.fn_ids \o new_fn_ids) THEN "found" ELSE "scan",
               fn_ids |-> a.fn_ids \o new_fn_ids,
               ranges |-> Append(a.ranges,
                                 <<Len(a.fn_ids), Len(a.fn_ids) + Len(new_fn_ids)>>)]
              : new_fn_ids \in Orders(new)}

\* the rounds from i on, against trees that do not change meanwhile
RECURSIVE ScanFrom(_, _, _, _)
ScanFrom(trees, cols, a, i) ==
    IF a.status # "scan" THEN {a}
    ELSE IF i >= MaxCandidateDepth(cols) THEN {[a EXCEPT !.status = "found"]}
    ELSE UNION {ScanFrom(trees, cols, b, i + 1) : b \in DepthStep(trees, cols, a, i)}

-----------------------------------------------------------------------------
(* search: truncation, resolution and the tie-break sort *)

\* no truncation to the cap
TruncEnd_NoCap(fn_ids) == Len(fn_ids)

\* let end = cmp::min(fn_ids.len(), MAX_RESULTS)
TruncEnd(fn_ids) == Min(Len(fn_ids), MAX_RESULTS)

\* a truncation that leaves the last range as the loop pushed it
TruncRanges_Keep(ranges, end) == ranges

\* if let Some(range) = ranges.pop() { ranges.push(range.start..end) }
TruncRanges(ranges, end) ==
    IF ranges = <<>> THEN ranges
    ELSE [ranges EXCEPT ![Len(ranges)] = <<ranges[Len(ranges)][1], end>>]

\* the sort_by closure: krate first, then the display string
FdLess(fd1, fd2) ==
    IF fd1.krate = fd2.krate THEN StrRank(fd1.s) < StrRank(fd2.s)
    ELSE StrRank(fd1.krate) < StrRank(fd2.krate)

\* a stable sort: x goes behind every element that is not greater
RECURSIVE InsertSorted(_, _)
InsertSorted(seq, x) ==
    IF seq = <<>> THEN <<x>>
    ELSE IF FdLess(x.fd, Head(seq).fd) THEN <<x>> \o seq
    ELSE <<Head(seq)>> \o InsertSorted(Tail(seq), x)

RECURSIVE SortBy(_)
\* a tie-break sort that leaves the hash order
SortBy_Unsorted(seq) == seq

SortBy(seq) ==
    IF seq = <<>> THEN <<>>
    ELSE InsertSorted(SortBy(SubSeq(seq, 1, Len(seq) - 1)), seq[Len(seq)])

\* ret[range].sort_by(..) for a range start..end
SortRange(ret, range) ==
    SubSeq(ret, 1, range[1]) \o SortBy(SubSeq(ret, range[1] + 1, range[2]))
        \o SubSeq(ret, range[2] + 1, Len(ret))

\* one sort of the whole result instead of one per range
SortRanges_Whole(ret, ranges) == SortBy(ret)

RECURSIVE SortRanges(_, _)
SortRanges(ret, ranges) ==
    IF ranges = <<>> THEN ret
    ELSE SortRanges(SortRange(ret, Head(ranges)), Tail(ranges))

\* a slice ret[start..end] panics when start > end or end > ret.len()
BadRange(ret, range) == range[1] > range[2] \/ range[2] > Len(ret)

\* the result entry of a resolved id; the id is kept beside the FnDetail
Entry(fn, fn_id) == [id |-> fn_id, fd |-> fn[fn_id]]

\* from the end of the loop to the return, against one fn tree
Finish(fn, a) ==
    IF a.status # "found" THEN [status |-> a.status, ret |-> <<>>, ranges |-> <<>>]
    ELSE LET end == TruncEnd(a.fn_ids)
             fn_ids == SubSeq(a.fn_ids, 1, end)
             ranges == TruncRanges(a.ranges, end)
         IN  IF \E k \in 1..Len(fn_ids) : fn_ids[k] \notin DOMAIN fn
             THEN [status |-> "panic: unwrap on None", ret |-> <<>>, ranges |-> <<>>]
             ELSE LET ret == [k \in 1..Len(fn_ids) |-> Entry(fn, fn_ids[k])] IN
                  IF \E k \in 1..Len(ranges) : BadRange(ret, ranges[k])
                  THEN [status |-> "panic: slice index", ret |-> <<>>, ranges |-> <<>>]
                  ELSE [status |-> "ok", ret |-> SortRanges(ret, ranges),
                        ranges |-> ranges]

\* every value search may return for these columns when no writer runs beside it
SearchResults(cols) ==
    {Finish(fn_tree, a) : a \in ScanFrom(Trees, cols, Acc0, 1)}

-----------------------------------------------------------------------------
(* Histories *)

Snapshot == [param |-> param_tree, ret |-> ret_tree, fn |-> fn_tree,
             crate |-> crate_tree]

NoUndo == [name |-> None, done |-> FALSE]

\* no transaction remembered; overwrote: whether some add_crate so far found
\* an entry of its crate in the crate tree
NoLast == [op |-> "none", overwrote |-> FALSE]

\* the transaction op of crate name is remembered with the database and the
\* index it found, the removals from param sets that found nothing (missed)
\* and whether it committed (ok)
Remember(op, name, missed, ok) ==
    last' = IF record_undo
            THEN [op |-> op, name |-> name, db |-> Db, fuzzy |-> fuzzy,
                  missed |-> missed, ok |-> ok,
                  overwrote |-> last.overwrote
                                \/ (op = "add_crate" /\ ok /\ name \in DOMAIN crate_tree)]
            ELSE last

NoResult == [status |-> "none", ret |-> <<>>, ranges |-> <<>>]

Panic(msg) == [status |-> msg, ret |-> <<>>, ranges |-> <<>>]

\* asked: whether the request had a term; cols: candidate_types
Query(asked, cols) == [asked |-> asked, cols |-> cols]

NoQuery == Query(FALSE, <<>>)

\* the locals of a search: candidate_types, i, (fn_ids, ranges) and ret
Locals(cols, i, a, ret) == [cols |-> cols, i |-> i, a |-> a, ret |-> ret]

Idle == Locals(<<>>, 0, Acc0, <<>>)

\* what every operation but search does to the histories of the last search
Forget ==
    /\ query' = NoQuery
    /\ result' = NoResult

-----------------------------------------------------------------------------
(* Actions *)

InitStore ==
    /\ next_fn_id = NoCounter
    /\ param_tree = EmptyTree
    /\ ret_tree = EmptyTree
    /\ fn_tree = EmptyTree
    /\ crate_tree = EmptyTree
    /\ fuzzy = [built |-> FALSE, param |-> {}, ret |-> {}]
    /\ aborted = None
    /\ query = NoQuery
    /\ result = NoResult
    /\ undo = NoUndo
    /\ last = NoLast
    /\ issued = <<>>
    /\ pc = "idle"
    /\ srch = Idle

Init == InitStore /\ record_undo = FALSE

\* an open_db that writes 0 whether or not the key is there
OpenDbCounter_Reset == <<0>>

\* open_db: the counter is set to 0 only when the key is absent
OpenDbCounter == IF next_fn_id = NoCounter THEN <<0>> ELSE next_fn_id

OpenDb ==
    /\ next_fn_id' = OpenDbCounter
    /\ Forget
    /\ undo' = NoUndo
    /\ Remember("open_db", None, 0, TRUE)
    /\ UNCHANGED <<param_tree, ret_tree, fn_tree, crate_tree, fuzzy, aborted,
                   record_undo, issued, pc, srch>>

\* the commit of a transaction's trees
Commit(t) ==
    /\ param_tree' = t.param
    /\ ret_tree' = t.ret
    /\ fn_tree' = t.fn
    /\ crate_tree' = t.crate

\* add_crate(db, name, fndetails): one transaction
AddCrate(name, fndetails) ==
    /\ next_fn_id # NoCounter
    /\ next_fn_id[1] + Len(fndetails) <= MaxId
    /\ LET t == AddCrateTxn(Db, name, fndetails) IN
       /\ IF t.ok
          THEN /\ Commit(t)
               /\ next_fn_id' = <<t.fn_id>>
               /\ issued' = issued \o t.fn_ids
               /\ undo' = IF record_undo
                          THEN [name |-> name, done |-> FALSE, before |-> Snapshot]
                          ELSE NoUndo
               /\ UNCHANGED aborted
          ELSE /\ aborted' = "isnew"
               /\ undo' = NoUndo
               /\ UNCHANGED <<store, issued>>
       /\ Remember("add_crate", name, 0, t.ok)
    /\ Forget
    /\ UNCHANGED <<fuzzy, record_undo, pc, srch>>

\* purge_crate(db, name): one transaction
PurgeCrate(name) ==
    /\ next_fn_id # NoCounter
    /\ LET t == PurgeCrateTxn(Db, name) IN
       /\ IF t.ok
          THEN /\ Commit(t)
               /\ undo' = IF undo.name = name /\ ~undo.done
                          THEN [undo EXCEPT !.done = TRUE] ELSE NoUndo
               /\ UNCHANGED aborted
          ELSE /\ aborted' = "didremove"
               /\ undo' = NoUndo
               /\ UNCHANGED <<param_tree, ret_tree, fn_tree, crate_tree>>
       /\ Remember("purge_crate", name, t.missed, t.ok)
    /\ Forget
    /\ UNCHANGED <<next_fn_id, fuzzy, record_undo, issued, pc, srch>>

\* analyze_and_save: purge_crate(name), then add_crate(name, fndetails)
AnalyzeAndSave(name, fndetails) ==
    /\ next_fn_id # NoCounter
    /\ next_fn_id[1] + Len(fndetails) <= MaxId
    /\ LET p == PurgeCrateTxn(Db, name) IN
       IF ~p.ok
       THEN /\ aborted' = "didremove"
            /\ UNCHANGED <<store, issued>>
       ELSE LET t == AddCrateTxn([next |-> next_fn_id, param |-> p.param,
                                  ret |-> p.ret, fn |-> p.fn, crate |-> p.crate],
                                 name, fndetails) IN
            IF t.ok
            THEN /\ Commit(t)
                 /\ next_fn_id' = <<t.fn_id>>
                 /\ issued' = issued \o t.fn_ids
                 /\ UNCHANGED aborted
            ELSE /\ Commit(p)
                 /\ aborted' = "isnew"
                 /\ UNCHANGED <<next_fn_id, issued>>
    /\ Forget
    /\ undo' = NoUndo
    /\ UNCHANGED <<fuzzy, record_undo, last, pc, srch>>

\* the type strings of the catalog in the byte order of sled's keys
KeyOrder == <<NOARGS, "String", "bool", "u16", "u8">>

\* tree.iter(): the keys in order
Keys(tree) == SelectSeq(KeyOrder, LAMBDA k : k \in DOMAIN tree)

\* tokenize_type on the catalog's strings: < and > get a space on either
\* side, and no two spaces are left in a row
tokenize_type(s) == IF s = NOARGS THEN " < NOARGS > " ELSE s

TypeInFn(id, key) == [id |-> id, ty |-> tokenize_type(key), orig_ty |-> key]

\* index.add_documents(batch, Some("id")): a document replaces the one of its id
AddDocuments(index, batch) ==
    LET ids == {batch[j].id : j \in 1..Len(batch)}
    IN  [id \in DOMAIN index \cup ids |->
            IF id \in ids
            THEN batch[CHOOSE j \in 1..Len(batch) :
                          /\ batch[j].id = id
                          /\ \A l \in (j + 1)..Len(batch) : batch[l].id # id]
            ELSE index[id]]

\* a loop that does not send the batch left at its end
RECURSIVE LoadKeys_NoFlush(_, _, _, _)
LoadKeys_NoFlush(index, batch, keys, i) ==
    IF keys = <<>> THEN index
    ELSE LET b == Append(batch, TypeInFn(i, Head(keys)))
         IN  IF Len(b) >= LOAD_BATCH
             THEN LoadKeys_NoFlush(AddDocuments(index, b), <<>>, Tail(keys), i + 1)
             ELSE LoadKeys_NoFlush(index, b, Tail(keys), i + 1)

\* the loop over tree.iter().enumerate() from its i-th key on, and the
\* do_batch behind it
RECURSIVE LoadKeys(_, _, _, _)
LoadKeys(index, batch, keys, i) ==
    IF keys = <<>> THEN AddDocuments(index, batch)
    ELSE LET b == Append(batch, TypeInFn(i, Head(keys)))
         IN  IF Len(b) >= LOAD_BATCH
             THEN LoadKeys(AddDocuments(index, b), <<>>, Tail(keys), i + 1)
             ELSE LoadKeys(index, b, Tail(keys), i + 1)

\* the index created anew and loaded with the keys of tree
LoadIndex(tree) == LoadKeys(EmptyTree, <<>>, Keys(tree), 0)

\* what a search of the index can show: displayed_attributes is orig_ty
OrigTypes(index) == {index[id].orig_ty : id \in DOMAIN index}

\* load_text_search: both indexes are dropped and loaded with the keys of the trees
LoadTextSearch ==
    /\ next_fn_id # NoCounter
    /\ fuzzy' = [built |-> TRUE, param |-> OrigTypes(LoadIndex(param_tree)),
                 ret |-> OrigTypes(LoadIndex(ret_tree))]
    /\ Forget
    /\ undo' = NoUndo
    /\ Remember("load_text_search", None, 0, TRUE)
    /\ UNCHANGED <<store, aborted, record_undo, issued, pc, srch>>

\* the candidate columns a request may get: nparams is <<>> for
\* params_search = None and <<n>> for Some of a list of n terms
CandidateTypes(has_ret, nparams) ==
    {rc \o pcs :
        rc \in (IF has_ret THEN {<<Column("ret", ct)>> : ct \in RetCandidates}
                ELSE {<<>>}),
        pcs \in (IF nparams = <<>> THEN {<<>>}
                 ELSE ParamColumns(ParamTerms(nparams[1])))}

\* search(db, params_search, ret_search), run to its end with no writer beside
\* it.  A search leaves the store as it found it, so one that follows another
\* search reaches nothing new: the value of a search is taken before the next.
Search(has_ret, nparams) ==
    /\ next_fn_id # NoCounter
    /\ pc = "idle"
    /\ result = NoResult
    /\ IF ~fuzzy.built /\ (has_ret \/ nparams # <<>>)
       THEN /\ query' = Query(TRUE, <<>>)
            /\ result' = Panic("panic: search failed")
       ELSE \E cols \in CandidateTypes(has_ret, nparams) :
               /\ query' = Query(cols # <<>>, cols)
               /\ result' \in SearchResults(cols)
    /\ undo' = NoUndo
    /\ UNCHANGED <<store, fuzzy, aborted, record_undo, last, issued, pc, srch>>

Requests == BOOLEAN \X ({<<>>} \cup {<<n>> : n \in 0..MaxQueryParams})

Next ==
    \/ OpenDb
    \/ \E name \in Crates : \E fndetails \in Batches(name) : AddCrate(name, fndetails)
    \/ \E name \in Crates : PurgeCrate(name)
    \/ LoadTextSearch
    \/ \E rq \in Requests : Search(rq[1], rq[2])

Spec == Init /\ [][Next]_vars

\* the store's transactions alone, with the undo and last histories kept
InitUndo == InitStore /\ record_undo = TRUE

NextStore ==
    \/ OpenDb
    \/ \E name \in Crates : \E fndetails \in Batches(name) : AddCrate(name, fndetails)
    \/ \E name \in Crates : PurgeCrate(name)
    \/ LoadTextSearch

SpecStore == InitUndo /\ [][NextStore]_vars

\* ingestion as the program does it: every add_crate behind a purge_crate
NextSave ==
    \/ OpenDb
    \/ \E name \in Crates : \E fndetails \in Batches(name) : AnalyzeAndSave(name, fndetails)
    \/ \E name \in Crates : PurgeCrate(name)
    \/ LoadTextSearch
    \/ \E rq \in Requests : Search(rq[1], rq[2])

SpecSave == Init /\ [][NextSave]_vars

-----------------------------------------------------------------------------
(* search beside the writers: its reads of the trees are not one           *)
(* transaction, so a commit may fall between any two of them.  One round   *)
(* of the widening loop is taken as a step, and so is each fn_tree.get.    *)

\* the fuzzy searches of the request, up to the loop
SearchBegin(has_ret, nparams) ==
    /\ next_fn_id # NoCounter
    /\ pc = "idle"
    /\ IF ~fuzzy.built /\ (has_ret \/ nparams # <<>>)
       THEN /\ query' = Query(TRUE, <<>>)
            /\ result' = Panic("panic: search failed")
            /\ UNCHANGED <<pc, srch>>
       ELSE \E cols \in CandidateTypes(has_ret, nparams) :
               /\ query' = Query(cols # <<>>, cols)
               /\ result' = NoResult
               /\ srch' = Locals(cols, 1, Acc0, <<>>)
               /\ pc' = "scan"
    /\ undo' = NoUndo
    /\ UNCHANGED <<store, fuzzy, aborted, record_undo, last, issued>>

\* one round of the loop, reading the param and ret trees as they are now
SearchDepth ==
    /\ pc = "scan"
    /\ srch.a.status = "scan"
    /\ srch.i < MaxCandidateDepth(srch.cols)
    /\ \E b \in DepthStep(Trees, srch.cols, srch.a, srch.i) :
          IF b.status \in {"scan", "found"}
          THEN /\ srch' = [srch EXCEPT !.a = b, !.i = srch.i + 1]
               /\ UNCHANGED <<pc, result>>
          ELSE /\ result' = Panic(b.status)
               /\ srch' = Idle
               /\ pc' = "idle"
    /\ UNCHANGED <<store, fuzzy, aborted, query, record_undo, undo, last, issued>>

\* the loop is left: the truncation of fn_ids and of the last range
SearchTruncate ==
    /\ pc = "scan"
    /\ srch.a.status = "found" \/ srch.i >= MaxCandidateDepth(srch.cols)
    /\ LET end == TruncEnd(srch.a.fn_ids) IN
       srch' = [srch EXCEPT !.a = [status |-> "found",
                                   fn_ids |-> SubSeq(srch.a.fn_ids, 1, end),
                                   ranges |-> TruncRanges(srch.a.ranges, end)]]
    /\ pc' = "resolve"
    /\ UNCHANGED <<store, fuzzy, aborted, query, result, record_undo, undo, last, issued>>

\* fn_tree.get(fn_id).unwrap().unwrap() for the next id, reading the fn tree
\* as it is now
SearchResolve ==
    /\ pc = "resolve"
    /\ Len(srch.ret) < Len(srch.a.fn_ids)
    /\ LET fn_id == srch.a.fn_ids[Len(srch.ret) + 1] IN
       IF fn_id \in DOMAIN fn_tree
       THEN /\ srch' = [srch EXCEPT !.ret = Append(srch.ret, Entry(fn_tree, fn_id))]
            /\ UNCHANGED <<pc, result>>
       ELSE /\ result' = Panic("panic: unwrap on None")
            /\ srch' = Idle
            /\ pc' = "idle"
    /\ UNCHANGED <<store, fuzzy, aborted, query, record_undo, undo, last, issued>>

\* the sort of each range, and the return
SearchSort ==
    /\ pc = "resolve"
    /\ Len(srch.ret) = Len(srch.a.fn_ids)
    /\ result' = IF \E k \in 1..Len(srch.a.ranges) : BadRange(srch.ret, srch.a.ranges[k])
                 THEN Panic("panic: slice index")
                 ELSE [status |-> "ok", ret |-> SortRanges(srch.ret, srch.a.ranges),
                       ranges |-> srch.a.ranges]
    /\ srch' = Idle
    /\ pc' = "idle"
    /\ UNCHANGED <<store, fuzzy, aborted, query, record_undo, undo, last, issued>>

NextConc ==
    \/ OpenDb
    \/ \E name \in Crates : \E fndetails \in Batches(name) : AddCrate(name, fndetails)
    \/ \E name \in Crates : PurgeCrate(name)
    \/ LoadTextSearch
    \/ \E rq \in Requests : SearchBegin(rq[1], rq[2])
    \/ SearchDepth
    \/ SearchTruncate
    \/ SearchResolve
    \/ SearchSort

SpecConc == Init /\ [][NextConc]_vars

\* from the end of the loop to the return in one step: truncation, every
\* fn_tree.get and the sort of each range
SearchReturn ==
    /\ pc = "scan"
    /\ srch.a.status = "found" \/ srch.i >= MaxCandidateDepth(srch.cols)
    /\ result' = Finish(fn_tree, [srch.a EXCEPT !.status = "found"])
    /\ srch' = Idle
    /\ pc' = "idle"
    /\ UNCHANGED <<store, fuzzy, aborted, query, record_undo, undo, last, issued>>

\* the rounds of a search with no writer beside it: the store's
\* operations wait until the search has returned, and crates are ingested
\* as the program does it.  As in Search, the value of a search is taken
\* before the next begins.
NextSeq ==
    \/ pc = "idle" /\ OpenDb
    \/ pc = "idle" /\ \E name \in Crates : \E fndetails \in Batches(name) :
                          AnalyzeAndSave(name, fndetails)
    \/ pc = "idle" /\ \E name \in Crates : PurgeCrate(name)
    \/ pc = "idle" /\ LoadTextSearch
    \/ result = NoResult /\ \E rq \in Requests : SearchBegin(rq[1], rq[2])
    \/ SearchDepth
    \/ SearchReturn

SpecSeq == Init /\ [][NextSeq]_vars

-----------------------------------------------------------------------------
(* The store's cross-index consistency *)

\* the keys of a tree whose set holds the id
EntriesOf(tree, id) == {k \in DOMAIN tree : id \in tree[k]}

\* C1: every fn id of the fn tree is in exactly one set of the ret tree and
\* in at least one set of the param tree, the <NOARGS> set when the function
\* has no parameters.
C1_IdIndexed ==
    \A id \in DOMAIN fn_tree :
        /\ Cardinality(EntriesOf(ret_tree, id)) = 1
        /\ EntriesOf(param_tree, id) # {}
        /\ fn_tree[id].params = <<>> => NOARGS \in EntriesOf(param_tree, id)

\* a store that was added to and purged from, holding a parameterless
\* function beside one with parameters
C1_Witness ==
    /\ \E id \in DOMAIN fn_tree : fn_tree[id].params = <<>>
    /\ \E id \in DOMAIN fn_tree : fn_tree[id].params # <<>>
    /\ \E id \in Range(issued) : id \notin DOMAIN fn_tree

\* C2 as stated: add_crate(X) directly followed by purge_crate(X) leaves the
\* four trees exactly as they were before the add.
C2_ExactRestore == undo.done => Snapshot = undo.before

\* a tree read with absent keys as empty sets is what it was, and has lost no key
SameSets(now, before) ==
    /\ DOMAIN before \subseteq DOMAIN now
    /\ \A k \in DOMAIN now : now[k] = GetSet(before, k)

\* C2, amended: add_crate(X) directly followed by purge_crate(X) restores the
\* fn tree exactly and every type string's id set of the param and ret trees,
\* the type strings the batch brought staying as keys of an empty set; the
\* crate tree is the one before the add without X's entry.
C2_RestoreUpToEmptySets ==
    undo.done =>
        /\ fn_tree = undo.before.fn
        /\ crate_tree = TreeRemove(undo.before.crate, undo.name)
        /\ SameSets(param_tree, undo.before.param)
        /\ SameSets(ret_tree, undo.before.ret)

\* an add and purge of a batch that brought a type string the trees did not hold
C2_Witness ==
    /\ undo.done
    /\ DOMAIN param_tree # DOMAIN undo.before.param
    /\ undo.before.fn # EmptyTree

\* C3: the ids add_crate assigns are strictly increasing in the order they
\* are assigned, the counter is above every one of them, and the counter,
\* once set, is never unset or lowered, by open_db or anything else.
C3_IdsNeverReused ==
    /\ [](\A i, j \in 1..Len(issued) : i < j => issued[i] < issued[j])
    /\ [](\A i \in 1..Len(issued) : next_fn_id # NoCounter /\ issued[i] < next_fn_id[1])
    /\ [][next_fn_id # NoCounter =>
            next_fn_id' # NoCounter /\ next_fn_id'[1] >= next_fn_id[1]]_vars

\* ids assigned after ids that were purged
C3_Witness ==
    /\ Len(issued) >= 3
    /\ \E i, j \in 1..Len(issued) :
          i < j /\ issued[i] \notin DOMAIN fn_tree /\ issued[j] \in DOMAIN fn_tree

-----------------------------------------------------------------------------
(* The query engine, run with no writer beside it.  While result holds the  *)
(* value of a search, the trees are those the search read.                  *)

\* a search has run last and returned a value
Returned == result.status = "ok"

\* the ids of the returned entries, in order
ResultIds == [k \in 1..Len(result.ret) |-> result.ret[k].id]

\* the ids that match, in every column, one of its first d candidates
Qualifying(d) == IterationFnIds(Trees, query.cols, d)

\* the depth at which a returned id first qualified
FirstDepth(id) ==
    CHOOSE d \in 1..FUZZY_SEARCH_LIMIT :
        /\ id \in Qualifying(d)
        /\ \A e \in 1..(d - 1) : id \notin Qualifying(e)

\* (crate, display string) of one entry is not above that of another
KeyLeq(fd1, fd2) ==
    \/ StrRank(fd1.krate) < StrRank(fd2.krate)
    \/ fd1.krate = fd2.krate /\ StrRank(fd1.s) <= StrRank(fd2.s)

\* C5 as stated: when the request has a term and every candidate column is
\* non-empty, whatever its length, the functions that match the first
\* candidate of every column are returned, up to the cap, as the first band.
C5_TopCandidatesReturned ==
    (/\ result.status # "none"
     /\ query.cols # <<>>
     /\ \A k \in 1..Len(query.cols) : query.cols[k].ct # <<>>)
    => /\ Returned
       /\ LET top == Qualifying(1)
              n == Min(Cardinality(top), MAX_RESULTS)
          IN  /\ Len(result.ret) >= n
              /\ {ResultIds[k] : k \in 1..n} \subseteq top
              /\ Cardinality({ResultIds[k] : k \in 1..n}) = n

\* C7: a search returns at most MAX_RESULTS entries.
C7_AtMostMaxResults == Len(result.ret) <= MAX_RESULTS

\* a search whose last depth qualified more ids than the cap left room for
C7_Witness ==
    /\ Returned
    /\ Len(result.ret) = MAX_RESULTS
    /\ result.ranges # <<>>
    /\ Cardinality(Qualifying(Len(result.ranges))) > MAX_RESULTS

\* C8: returned entries that first qualified at the same depth are in
\* ascending order of (crate, display string).
C8_BandSorted ==
    Returned =>
        \A i, j \in 1..Len(result.ret) :
            (i < j /\ FirstDepth(ResultIds[i]) = FirstDepth(ResultIds[j]))
            => KeyLeq(result.ret[i].fd, result.ret[j].fd)

\* a band of two entries of different crates, cut by the cap from the three
\* ids that qualified at its depth
C8_Witness ==
    /\ Returned
    /\ \E i, j \in 1..Len(result.ret) :
          /\ i < j
          /\ FirstDepth(ResultIds[i]) = FirstDepth(ResultIds[j])
          /\ result.ret[i].fd.krate # result.ret[j].fd.krate
          /\ Cardinality(Qualifying(FirstDepth(ResultIds[i]))) > Len(result.ret)

\* C9: a returned entry that first qualified at a depth stands before every
\* entry that first qualified at a greater depth.
C9_BandsInDepthOrder ==
    Returned =>
        \A i, j \in 1..Len(result.ret) :
            i < j => FirstDepth(ResultIds[i]) <= FirstDepth(ResultIds[j])

\* a result of two bands whose later band holds the smaller (crate, display)
C9_Witness ==
    /\ Returned
    /\ \E i, j \in 1..Len(result.ret) :
          /\ FirstDepth(ResultIds[i]) < FirstDepth(ResultIds[j])
          /\ ~KeyLeq(result.ret[i].fd, result.ret[j].fd)

\* C10: a search with neither a return term nor a parameter term returns
\* an empty result, whatever the store holds.
C10_NoTermsEmpty ==
    (result.status # "none" /\ ~query.asked) => (Returned /\ result.ret = <<>>)

\* such a search over a store that holds functions of both crates
C10_Witness ==
    /\ Returned
    /\ ~query.asked
    /\ result.ret = <<>>
    /\ Crates \subseteq {fn_tree[id].krate : id \in DOMAIN fn_tree}

-----------------------------------------------------------------------------
(* Searching after a purge, with ingestion as analyze_and_save does it *)

\* C6: once purge_crate(X) has committed, a search, against the index as it
\* was loaded before the purge or as reloaded after it, fails on nothing and
\* returns no function of X: nothing at all when no other crate is stored.
C6_PurgedNotReturned ==
    (result.status # "none" /\ fuzzy.built) =>
        /\ Returned
        /\ \A k \in 1..Len(result.ret) : result.ret[k].fd.krate \in DOMAIN crate_tree
        /\ DOMAIN crate_tree = {} => result.ret = <<>>

\* every crate purged, and a search whose columns name type strings the
\* purged functions were indexed under, looked up to a depth of two
C6_Witness ==
    /\ Returned
    /\ result.ret = <<>>
    /\ DOMAIN crate_tree = {}
    /\ Len(issued) >= 3
    /\ Len(query.cols) = 2
    /\ \A k \in 1..Len(query.cols) : Len(query.cols[k].ct) >= 2
    /\ Len(result.ranges) >= 1

-----------------------------------------------------------------------------
(* Searching beside the writers *)

\* C4 as stated: a search that runs beside add_crate and purge_crate
\* transactions never fails on an id it took from the param or ret tree
\* and then does not find in the fn tree.
C4_SearchNeverMissesRecord == result.status # "panic: unwrap on None"

-----------------------------------------------------------------------------
(* The transactions of the store, seen through the last history *)

\* the last transaction was purge_crate and it committed
Purged == last.op = "purge_crate" /\ last.ok

\* the ids the crate tree listed for the crate of the last transaction
Listed == IF last.name \in DOMAIN last.db.crate
          THEN Range(last.db.crate[last.name]) ELSE {}

\* C11: purge_crate of a crate name that has no entry in the crate tree is
\* not an error and leaves the param, ret, fn and crate trees and the id
\* counter as they were.
C11_UnknownPurgeNoOp ==
    (last.op = "purge_crate" /\ last.name \notin DOMAIN last.db.crate) =>
        /\ last.ok
        /\ aborted = None
        /\ Db = last.db

\* purge_crate of an unknown crate has run on a store that holds functions
C11_Witness ==
    /\ last.op = "purge_crate"
    /\ last.name \notin DOMAIN last.db.crate
    /\ fn_tree # EmptyTree
    /\ crate_tree # EmptyTree

\* the occurrences of a parameter type in params after its first
Repeats(params) == Len(params) - Cardinality(Range(params))

\* the sum of Repeats over the functions fn_ids of fn
RECURSIVE RepeatsOf(_, _)
RepeatsOf(fn_ids, fn) ==
    IF fn_ids = <<>> THEN 0
    ELSE Repeats(ParamsOrNil(fn[Head(fn_ids)].params)) + RepeatsOf(Tail(fn_ids), fn)

\* db with fn_id taken out of the set under key k of its ret tree
RetWithout(db, k, fn_id) == [db EXCEPT !.ret = [@ EXCEPT ![k] = @ \ {fn_id}]]

\* C12, as stated: a removal of purge_crate that does not find the id in a
\* param set or in the ret set aborts the purge, which then commits nothing.
C12_EveryRemovalFinds ==
    (last.op = "purge_crate" /\ last.missed > 0) => ~last.ok /\ Db = last.db

\* C12, amended: only the removal from the ret set is checked.  A purge that
\* committed found every listed id in its ret set, and a listed id missing
\* from its ret set makes the transaction fail; the removals from param sets
\* that find nothing are those of a parameter type the function has more
\* than once, and the purge commits with them.
C12_RetRemovalChecked ==
    /\ Purged =>
          /\ \A fn_id \in Listed :
                fn_id \in GetSet(last.db.ret, last.db.fn[fn_id].ret)
          /\ last.name \in DOMAIN last.db.crate =>
                last.missed = RepeatsOf(last.db.crate[last.name], last.db.fn)
    /\ last.op = "purge_crate" => last.ok
    /\ \A name \in DOMAIN crate_tree : \A fn_id \in Range(crate_tree[name]) :
          ~PurgeCrateTxn(RetWithout(Db, fn_tree[fn_id].ret, fn_id), name).ok

\* a purge has committed although a removal from a param set found nothing
C12_Witness ==
    /\ Purged
    /\ last.missed > 0
    /\ \E fn_id \in Listed : fn_id \notin DOMAIN fn_tree

\* tree holds what before held, less the ids gone from every set; no key is
\* gone or new
SetsLess(tree, before, gone) ==
    /\ DOMAIN tree = DOMAIN before
    /\ \A k \in DOMAIN before : tree[k] = before[k] \ gone

\* C13: once purge_crate of a crate with an entry has committed, the crate
\* tree has no entry of the crate, none of the ids the entry listed is in
\* the fn tree or in a set of the param or ret tree, and the entries, fn
\* records and set memberships of every other id are as they were.
C13_PurgeRemovesRecorded ==
    (Purged /\ last.name \in DOMAIN last.db.crate) =>
        /\ last.name \notin DOMAIN crate_tree
        /\ \A fn_id \in Listed :
              /\ fn_id \notin DOMAIN fn_tree
              /\ \A k \in DOMAIN param_tree : fn_id \notin param_tree[k]
              /\ \A k \in DOMAIN ret_tree : fn_id \notin ret_tree[k]
        /\ DOMAIN crate_tree = DOMAIN last.db.crate \ {last.name}
        /\ \A name \in DOMAIN crate_tree : crate_tree[name] = last.db.crate[name]
        /\ DOMAIN fn_tree = DOMAIN last.db.fn \ Listed
        /\ \A fn_id \in DOMAIN fn_tree : fn_tree[fn_id] = last.db.fn[fn_id]
        /\ SetsLess(param_tree, last.db.param, Listed)
        /\ SetsLess(ret_tree, last.db.ret, Listed)

\* a crate with functions has been purged beside another crate's functions
C13_Witness ==
    /\ Purged
    /\ Cardinality(Listed) >= 2
    /\ crate_tree # EmptyTree
    /\ \E fn_id \in DOMAIN fn_tree : fn_tree[fn_id].krate # last.name
    /\ \E k \in DOMAIN param_tree :
          param_tree[k] # {} /\ last.db.param[k] \cap Listed # {}

\* C14: the fuzzy index is a snapshot.  Right after load_text_search the
\* strings it holds for params (returns) are the keys of the param (ret)
\* tree, and add_crate and purge_crate leave it as they found it.
C14_Snapshot ==
    /\ last.op = "load_text_search" =>
          /\ fuzzy.built
          /\ fuzzy.param = DOMAIN param_tree
          /\ fuzzy.ret = DOMAIN ret_tree
    /\ last.op \in {"add_crate", "purge_crate"} => fuzzy = last.fuzzy

\* a transaction has put new keys in both trees behind a loaded index
C14_Witness ==
    /\ last.op = "add_crate"
    /\ last.ok
    /\ fuzzy.built
    /\ fuzzy.param # {}
    /\ ~(DOMAIN param_tree \subseteq fuzzy.param)
    /\ ~(DOMAIN ret_tree \subseteq fuzzy.ret)

\* every fn record is listed in the crate tree's entry of its crate
AllListed ==
    \A fn_id \in DOMAIN fn_tree :
        /\ fn_tree[fn_id].krate \in DOMAIN crate_tree
        /\ fn_id \in Range(crate_tree[fn_tree[fn_id].krate])

\* C15, as stated: whatever the order of add_crate and purge_crate, every id
\* in the fn tree is listed in the crate tree's entry of its crate.
C15_EveryIdListed == AllListed

\* C15, amended: add_crate replaces the entry of its crate by the ids it
\* assigns.  As long as no add_crate found an entry of its crate, every id
\* in the fn tree is listed and a purge_crate leaves no fn record of its
\* crate.
C15_ListedUnlessOverwritten ==
    /\ (last.op = "add_crate" /\ last.ok) =>
          /\ last.name \in DOMAIN crate_tree
          /\ Range(crate_tree[last.name]) = DOMAIN fn_tree \ DOMAIN last.db.fn
    /\ ~last.overwrote =>
          /\ AllListed
          /\ Purged => \A fn_id \in DOMAIN fn_tree : fn_tree[fn_id].krate # last.name

\* no add_crate has found an entry, and a crate of several functions has
\* been purged beside another crate's functions
C15_Witness ==
    /\ ~last.overwrote
    /\ Purged
    /\ Cardinality(Listed) >= 2
    /\ fn_tree # EmptyTree

-----------------------------------------------------------------------------
(* The widening loop, seen round by round *)

\* every id a set of the param or ret tree holds
StoredIds ==
    UNION ({param_tree[k] : k \in DOMAIN param_tree}
           \cup {ret_tree[k] : k \in DOMAIN ret_tree})

\* fn_id is in the set of one of the first min(d, length) candidates of col
MatchesTop(col, d, fn_id) ==
    \E j \in 1..Min(d, Len(col.ct)) : fn_id \in GetSet(Trees[col.tree], col.ct[j])

\* the ids that match every column of cols within its first d candidates
MatchAll(cols, d) ==
    {fn_id \in StoredIds : \A k \in 1..Len(cols) : MatchesTop(cols[k], d, fn_id)}

\* the rounds of the loop the running search has been through
RoundsDone == IF pc = "scan" THEN srch.i - 1 ELSE 0

\* C16: after the round of depth d the ids emitted so far are those in the
\* intersection, over the columns, of the union of the sets of the column's
\* first min(d, length) candidates; so every function returned matches, in
\* every column, one of the candidates the loop got to.
C16_EmittedIsIntersection ==
    /\ RoundsDone >= 1 => Range(srch.a.fn_ids) = MatchAll(srch.cols, RoundsDone)
    /\ Returned =>
          \A k \in 1..Len(result.ret) :
              \A c \in 1..Len(query.cols) :
                  MatchesTop(query.cols[c], Len(result.ranges), result.ret[k].id)

\* two rounds done over two columns, with ids emitted and an id that
\* matches the first column but not the second
C16_Witness ==
    /\ RoundsDone = 2
    /\ Len(srch.cols) = 2
    /\ Len(srch.a.fn_ids) >= 2
    /\ \E fn_id \in StoredIds :
          /\ MatchesTop(srch.cols[1], 2, fn_id)
          /\ ~MatchesTop(srch.cols[2], 2, fn_id)

\* C17: no fn id is twice in the result of a search.
C17_NoDuplicateIds ==
    Returned =>
        \A j, k \in 1..Len(result.ret) :
            result.ret[j].id = result.ret[k].id => j = k

\* a result of two rounds: the id of the first round qualified again in the
\* second, which emitted another id
C17_Witness ==
    /\ Returned
    /\ Len(result.ranges) >= 2
    /\ result.ranges[1][2] > result.ranges[1][1]
    /\ result.ranges[2][2] > result.ranges[2][1]
    /\ result.ret[1].id \in MatchAll(query.cols, 2)

\* column k of the running search is shorter than the rounds done
Short(k) == Len(srch.cols[k].ct) >= 1 /\ Len(srch.cols[k].ct) < RoundsDone

\* C18: a search one of whose candidate columns is empty returns an empty
\* result; and in the rounds past a column's length the column still counts
\* with all its candidates: the ids emitted are those matching one of them,
\* and one of the first candidates of every other column.
C18_EmptyAndShortColumns ==
    /\ (result.status # "none" /\ \E k \in 1..Len(query.cols) : query.cols[k].ct = <<>>) =>
          Returned /\ result.ret = <<>>
    /\ (RoundsDone >= 1 /\ \E k \in 1..Len(srch.cols) : Short(k)) =>
          \A fn_id \in StoredIds :
              fn_id \in Range(srch.a.fn_ids) <=>
                  \A k \in 1..Len(srch.cols) :
                      \E j \in 1..Len(srch.cols[k].ct) :
                          /\ Short(k) \/ j <= RoundsDone
                          /\ fn_id \in GetSet(Trees[srch.cols[k].tree], srch.cols[k].ct[j])

\* the second round has emitted an id with a column of one candidate
C18_Witness ==
    /\ RoundsDone = 2
    /\ \E k \in 1..Len(srch.cols) : Short(k)
    /\ srch.a.ranges[2][2] > srch.a.ranges[2][1]

\* a search with an empty column beside a column that matches has returned
C18_EmptyColumnReached ==
    /\ Returned
    /\ \E k, c \in 1..Len(query.cols) :
          /\ query.cols[k].ct = <<>>
          /\ Len(query.cols[c].ct) >= 2
          /\ MatchAll(<<query.cols[c]>>, 1) # {}

\* the ids that first match every column in round d
NewAt(d) == MatchAll(query.cols, d) \ (IF d = 1 THEN {} ELSE MatchAll(query.cols, d - 1))

\* C19: the ranges of a result start at 0, each starts where the one before
\* ends, none ends before it starts, and the last ends at the length of the
\* result.  Every range but the last holds all the ids of its round, the
\* last at most those of its round; and the loop ran until the count
\* reached MAX_RESULTS or the rounds were over, not further.
C19_RangesCoverResult ==
    (result.status # "none" /\ result.status # "panic: search failed") =>
        LET ranges == result.ranges
            n == Len(ranges)
        IN  /\ Returned
            /\ n = 0 => result.ret = <<>>
            /\ n > 0 => ranges[1][1] = 0 /\ ranges[n][2] = Len(result.ret)
            /\ \A k \in 1..n : ranges[k][1] <= ranges[k][2]
            /\ \A k \in 1..(n - 1) :
                  /\ ranges[k + 1][1] = ranges[k][2]
                  /\ ranges[k][2] - ranges[k][1] = Cardinality(NewAt(k))
                  /\ ranges[k][2] < MAX_RESULTS
            /\ n > 0 => ranges[n][2] - ranges[n][1] <= Cardinality(NewAt(n))
            /\ n > 0 => ranges[n][2] = Min(Cardinality(MatchAll(query.cols, n)), MAX_RESULTS)
            /\ (n = 0 \/ Cardinality(MatchAll(query.cols, n)) < MAX_RESULTS) =>
                  n + 1 >= MaxCandidateDepth(query.cols)

\* a result of two rounds whose second range was cut by the cap
C19_Witness ==
    /\ Returned
    /\ Len(result.ranges) = 2
    /\ result.ranges[1][2] > 0
    /\ Cardinality(MatchAll(query.cols, 2)) > MAX_RESULTS
    /\ Len(result.ret) = MAX_RESULTS

\* C20: no key is ever taken out of the param or ret tree, so every string
\* of the index, whenever it was loaded, is still a key of its tree, and no
\* search dies on a candidate type without an entry.
C20_CandidatesHaveEntries ==
    /\ fuzzy.param \subseteq DOMAIN param_tree
    /\ fuzzy.ret \subseteq DOMAIN ret_tree
    /\ result.status # "panic: candidate type did not already have an entry in db"

\* a search has returned after reading, in its rounds, a candidate whose
\* set a purge_crate behind the load had left empty
C20_Witness ==
    /\ Returned
    /\ \E k \in 1..Len(query.cols) :
          \E j \in 1..Min(Len(result.ranges), Len(query.cols[k].ct)) :
              GetSet(Trees[query.cols[k].tree], query.cols[k].ct[j]) = {}
    /\ fn_tree # EmptyTree

\* C21: whatever the order of the add_crate and purge_crate transactions,
\* neither assert!(isnew) nor assert!(didremove) fails: every transaction
\* commits, no ret set holds an id the counter has yet to give out, and
\* every id an entry of the crate tree lists has its fn record and is in
\* the ret set of its return type.
C21_NoAssertionFires ==
    /\ aborted = None
    /\ last.op \in {"add_crate", "purge_crate"} => last.ok
    /\ next_fn_id # NoCounter =>
          \A k \in DOMAIN ret_tree : \A fn_id \in ret_tree[k] : fn_id < next_fn_id[1]
    /\ \A name \in DOMAIN crate_tree : \A fn_id \in Range(crate_tree[name]) :
          /\ fn_id \in DOMAIN fn_tree
          /\ fn_id \in GetSet(ret_tree, fn_tree[fn_id].ret)

\* two ingestions of a crate have run with no purge between their
\* add_crate, and a purge_crate of the crate has then committed, leaving
\* the ids of the first behind
C21_Witness ==
    /\ last.overwrote
    /\ Purged
    /\ Listed # {}
    /\ \E fn_id \in DOMAIN fn_tree : fn_tree[fn_id].krate = last.name

====
